---- MODULE Spec2Model ----
(***************************************************************************)
(* Lecture session timer engine (LectureTimerService) of the stamper app,  *)
(* together with the lecture session storage helpers it calls.             *)
(*                                                                         *)
(* JavaScript objects are modelled as follows.  Pause intervals are        *)
(* mutable objects that the timer state's list and the session's list may  *)
(* share, so they live in `heap` and both lists hold references (indices   *)
(* into heap).  The key-value store holds JSON text, hence plain values:   *)
(* saving dereferences, loading allocates fresh objects.  An optional      *)
(* value (T | null, field?: T) is a sequence of length 0 or 1.             *)
(***************************************************************************)
EXTENDS Integers, Sequences, FiniteSets, TLC

VARIABLES
  clock,           \* Date.now()
  timerState,      \* LectureTimerService.timerState
  currentSession,  \* LectureTimerService.currentSession (<<>> = null)
  checkedItemIds,  \* LectureTimerService.checkedItemIds, in insertion order
  heap,            \* the pause interval objects the engine can reach
  store,           \* the key-value store: lecture_sessions, lecture_current_session
  nextId,          \* number of session ids generated so far
  listeners,       \* LectureTimerService.listeners, in insertion order
  lastOp,          \* history: the operation called by the last step
  returned,        \* history: what that call returned (<<>> = void / null)
  notified,        \* history: the timer states that call passed to the listeners
  called,          \* history: the listener calls of that call, <<listener, state>>
  hist,            \* history: effective start/pause/resume/stop calls since the
                   \* session's start or its restore (<<>> after a restart)
  loggedIds,       \* history: ids logged on this session and not removed since
  snapshotAt,      \* history: clock of the last write of a snapshot (0 = none)
  startedOutline,  \* history: the outline id of the last effective startLecture
  replaced,        \* history: ids of the sessions a startLecture has overwritten
  content,         \* the markdown text handed to the importer
  parsed,          \* what parseMarkdownList(content) returned (<<>> = not called)
  outline,         \* what flattenMarkdownItems returned for it (<<>> = not called)
  validation,      \* what validateMarkdownItems returned (<<>> = not called)
  imported         \* importFromText's options and result (<<>> = not called)

\* The state of the lecture timer engine and its history
engineVars == <<clock, timerState, currentSession, checkedItemIds, heap, store,
                nextId, listeners, lastOp, returned, notified, called, hist,
                loggedIds, snapshotAt, startedOutline, replaced>>

\* The state of a markdown import
importVars == <<content, parsed, outline, validation, imported>>

vars == <<engineVars, importVars>>

\* ---- bounds
MaxClock == 3
MaxIntervals == 1
\* The pauses of one session where only the timer is watched
MaxPauses == 2
MaxSessions == 1
\* The lines of a markdown text
MaxLines == 3
\* The items handed to validateMarkdownItems
MaxItems == 3

OutlineIds == {"outline1", "outline2"}
ItemIds == {"i1", "i2"}
ListenerIds == {"l1", "l2"}

\* No markdown import is going on
NoImport ==
  /\ content = <<>>
  /\ parsed = <<>>
  /\ outline = <<>>
  /\ validation = <<>>
  /\ imported = <<>>
  /\ validation = <<>>
  /\ imported = <<>>

\* ---- helpers
Last(s) == s[Len(s)]

RECURSIVE Filter(_, _)
\* Array.prototype.filter with the predicate entry.itemId !== itemId
Filter(entries, itemId) ==
  IF entries = <<>> THEN <<>>
  ELSE IF Head(entries).itemId # itemId
       THEN <<Head(entries)>> \o Filter(Tail(entries), itemId)
       ELSE Filter(Tail(entries), itemId)

\* Set.prototype.add on an insertion-ordered set
SetAdd(s, x) == IF \E i \in 1..Len(s) : s[i] = x THEN s ELSE Append(s, x)

RECURSIVE SetDelete(_, _)
\* Set.prototype.delete on an insertion-ordered set
SetDelete(s, x) ==
  IF s = <<>> THEN <<>>
  ELSE IF Head(s) = x THEN SetDelete(Tail(s), x)
       ELSE <<Head(s)>> \o SetDelete(Tail(s), x)

\* The values of the interval objects a list of references points to
Deref(h, refs) == [i \in 1..Len(refs) |-> h[refs[i]]]

\* ---- the key-value store (JSON text by key)
\* st.saveFails, st.loadFails: the store is in a condition where save, load
\* throw or return false
\* save(key, value): the value is serialised, so later mutation does not reach
\* it; a save that fails writes nothing, and no caller looks at its result
save(st, key, value) == IF st.saveFails THEN st ELSE [st EXCEPT ![key] = value]

\* load(key): the parsed value, null when the key holds nothing; a load that
\* fails ends as null or [] in the catch (or the ||) of the storage helper
load(st, key) == IF st.loadFails THEN <<>> ELSE st[key]

\* JSON.stringify of a session: the interval objects by value
SessionJson(h, s) == [s EXCEPT !.pausedIntervals = Deref(h, s.pausedIntervals)]

\* JSON.stringify of { ...timerState }
TimerJson(h, t) == [t EXCEPT !.pausedIntervals = Deref(h, t.pausedIntervals)]

\* ---- lectureSessionStorage
loadLectureSessions(st) == load(st, "lecture_sessions")

saveLectureSessions(st, sessions) == save(st, "lecture_sessions", sessions)

savePausedLectureState(st, state) == save(st, "lecture_current_session", <<state>>)

loadPausedLectureState(st) == load(st, "lecture_current_session")

\* clearPausedLectureState() that writes nothing
clearPausedLectureStateSkipped(st) == st

clearPausedLectureState(st) == save(st, "lecture_current_session", <<>>)

\* addLectureSession(session) that forgets the sessions stored before
addLectureSessionAlone(st, session) ==
  LET paused == loadPausedLectureState(st)
      st1 == IF paused # <<>> /\ paused[1].session.id = session.id
             THEN clearPausedLectureState(st)
             ELSE st
  IN saveLectureSessions(st1, <<session>>)

\* addLectureSession(session), session already serialised
addLectureSession(st, session) ==
  LET existing == Append(loadLectureSessions(st), session)
      paused == loadPausedLectureState(st)
      st1 == IF paused # <<>> /\ paused[1].session.id = session.id
             THEN clearPausedLectureState(st)
             ELSE st
  IN saveLectureSessions(st1, existing)

\* ---- LectureTimerService, as functions of the engine's world
\* w = [timerState, currentSession, checkedItemIds, heap, store, listeners,
\*      notified, calls, ret]
ZeroTimer == [isRunning |-> FALSE, startTime |-> <<>>, pausedTime |-> 0,
              pausedIntervals |-> <<>>]

\* notifyListeners() that calls the first listener only
notifyListenersFirst(w) ==
  [w EXCEPT !.notified = Append(@, TimerJson(w.heap, w.timerState)),
            !.calls = @ \o [i \in 1..(IF w.listeners = <<>> THEN 0 ELSE 1) |->
                              <<w.listeners[i], TimerJson(w.heap, w.timerState)>>]]

\* notifyListeners(): Set.forEach hands this.timerState to each listener, in
\* insertion order
notifyListeners(w) ==
  [w EXCEPT !.notified = Append(@, TimerJson(w.heap, w.timerState)),
            !.calls = @ \o [i \in 1..Len(w.listeners) |->
                              <<w.listeners[i], TimerJson(w.heap, w.timerState)>>]]

\* addListener(listener)
addListener(w, listener) == [w EXCEPT !.listeners = SetAdd(@, listener)]

\* the function addListener(listener) returned
removeListener(w, listener) == [w EXCEPT !.listeners = SetDelete(@, listener)]

\* persistPausedSnapshot() that leaves the checked items out of the snapshot
persistPausedSnapshotNoChecked(w) ==
  IF w.currentSession = <<>> THEN w
  ELSE [w EXCEPT !.store = savePausedLectureState(@,
          [session |-> SessionJson(w.heap, w.currentSession[1]),
           timer |-> TimerJson(w.heap, w.timerState),
           checkedItemIds |-> <<>>])]

\* persistPausedSnapshot()
persistPausedSnapshot(w) ==
  IF w.currentSession = <<>> THEN w
  ELSE [w EXCEPT !.store = savePausedLectureState(@,
          [session |-> SessionJson(w.heap, w.currentSession[1]),
           timer |-> TimerJson(w.heap, w.timerState),
           checkedItemIds |-> w.checkedItemIds])]


\* restorePausedLecture() that opens the forced pause at time 0
restorePausedLectureEpoch(w, now) ==
  LET snapshot == loadPausedLectureState(w.store) IN
  IF snapshot = <<>> THEN [w EXCEPT !.ret = <<FALSE>>]
  ELSE
    LET snap == snapshot[1]
        k == Len(snap.timer.pausedIntervals)
        m == Len(snap.session.pausedIntervals)
        h0 == snap.timer.pausedIntervals \o snap.session.pausedIntervals
        session == [snap.session EXCEPT !.pausedIntervals = [i \in 1..m |-> k + i]]
        timer == [snap.timer EXCEPT !.pausedIntervals = [i \in 1..k |-> i]]
        forced == snap.timer.isRunning
        h1 == IF forced THEN Append(h0, [start |-> 0, end |-> 0]) ELSE h0
        timer1 == IF forced
                  THEN [timer EXCEPT !.isRunning = FALSE,
                                     !.pausedIntervals = Append(@, Len(h1))]
                  ELSE timer
    IN notifyListeners([w EXCEPT !.currentSession = <<session>>,
                                 !.timerState = timer1,
                                 !.checkedItemIds = snap.checkedItemIds,
                                 !.heap = h1,
                                 !.ret = <<TRUE>>])

\* restorePausedLecture(): JSON.parse gives the snapshot's two interval lists
\* fresh objects of their own, the timer's first in the heap
restorePausedLecture(w, now) ==
  LET snapshot == loadPausedLectureState(w.store) IN
  IF snapshot = <<>> THEN [w EXCEPT !.ret = <<FALSE>>]
  ELSE
    LET snap == snapshot[1]
        k == Len(snap.timer.pausedIntervals)
        m == Len(snap.session.pausedIntervals)
        h0 == snap.timer.pausedIntervals \o snap.session.pausedIntervals
        session == [snap.session EXCEPT !.pausedIntervals = [i \in 1..m |-> k + i]]
        timer == [snap.timer EXCEPT !.pausedIntervals = [i \in 1..k |-> i]]
        forced == snap.timer.isRunning
        h1 == IF forced THEN Append(h0, [start |-> now, end |-> 0]) ELSE h0
        timer1 == IF forced
                  THEN [timer EXCEPT !.isRunning = FALSE,
                                     !.pausedIntervals = Append(@, Len(h1))]
                  ELSE timer
    IN notifyListeners([w EXCEPT !.currentSession = <<session>>,
                                 !.timerState = timer1,
                                 !.checkedItemIds = snap.checkedItemIds,
                                 !.heap = h1,
                                 !.ret = <<TRUE>>])

\* getCheckedItemIds()
getCheckedItemIds(w) == w.checkedItemIds

\* getCoveredItemIds()
getCoveredItemIds(w) ==
  IF w.currentSession = <<>> THEN <<>>
  ELSE [i \in 1..Len(w.currentSession[1].itemTimestamps) |->
          w.currentSession[1].itemTimestamps[i].itemId]

\* startLecture(outline) that leaves the snapshot slot as it is
startLectureKeepSnapshot(w, outlineId, now, id) ==
  LET session == [id |-> id, outlineId |-> outlineId, startedAt |-> now,
                  pausedIntervals |-> <<>>, itemTimestamps |-> <<>>,
                  completedAt |-> <<>>]
      timer == [isRunning |-> TRUE, startTime |-> <<now>>, pausedTime |-> 0,
                pausedIntervals |-> <<>>]
  IN notifyListeners([w EXCEPT !.currentSession = <<session>>,
                               !.timerState = timer,
                               !.checkedItemIds = <<>>,
                               !.heap = <<>>,
                               !.ret = <<session>>])

\* startLecture(outline), id the fresh session id
startLecture(w, outlineId, now, id) ==
  LET session == [id |-> id, outlineId |-> outlineId, startedAt |-> now,
                  pausedIntervals |-> <<>>, itemTimestamps |-> <<>>,
                  completedAt |-> <<>>]
      timer == [isRunning |-> TRUE, startTime |-> <<now>>, pausedTime |-> 0,
                pausedIntervals |-> <<>>]
  IN notifyListeners([w EXCEPT !.currentSession = <<session>>,
                               !.timerState = timer,
                               !.checkedItemIds = <<>>,
                               !.heap = <<>>,
                               !.store = clearPausedLectureState(@),
                               !.ret = <<session>>])

\* pauseLecture() without the isRunning guard
pauseLectureUnguarded(w, now) ==
  IF w.currentSession = <<>> THEN [w EXCEPT !.ret = <<>>]
  ELSE
    LET h1 == Append(w.heap, [start |-> now, end |-> 0])
        newInterval == Len(h1)
    IN notifyListeners(persistPausedSnapshot(
         [w EXCEPT !.timerState.isRunning = FALSE,
                   !.timerState.pausedIntervals = Append(@, newInterval),
                   !.currentSession[1].pausedIntervals = Append(@, newInterval),
                   !.heap = h1,
                   !.ret = <<>>]))

\* pauseLecture(): one new interval object, pushed on both lists
pauseLecture(w, now) ==
  IF ~w.timerState.isRunning \/ w.currentSession = <<>> THEN [w EXCEPT !.ret = <<>>]
  ELSE
    LET h1 == Append(w.heap, [start |-> now, end |-> 0])
        newInterval == Len(h1)
    IN notifyListeners(persistPausedSnapshot(
         [w EXCEPT !.timerState.isRunning = FALSE,
                   !.timerState.pausedIntervals = Append(@, newInterval),
                   !.currentSession[1].pausedIntervals = Append(@, newInterval),
                   !.heap = h1,
                   !.ret = <<>>]))

\* resumeLecture() that leaves the open interval open
resumeLectureNoClose(w, now) ==
  IF w.timerState.isRunning \/ w.currentSession = <<>> THEN [w EXCEPT !.ret = <<>>]
  ELSE notifyListeners(persistPausedSnapshot(
         [w EXCEPT !.timerState.isRunning = TRUE, !.ret = <<>>]))

\* resumeLecture() that closes the interval and forgets to add its duration
resumeLectureNoSum(w, now) ==
  IF w.timerState.isRunning \/ w.currentSession = <<>> THEN [w EXCEPT !.ret = <<>>]
  ELSE
    LET list == w.timerState.pausedIntervals
        closes == list # <<>> /\ w.heap[Last(list)].end = 0
        w1 == [w EXCEPT !.timerState.isRunning = TRUE, !.ret = <<>>]
        w2 == IF closes THEN [w1 EXCEPT !.heap[Last(list)].end = now] ELSE w1
    IN notifyListeners(persistPausedSnapshot(w2))

\* resumeLecture() that does not look whether there is a session
resumeLectureAnyway(w, now) ==
  IF w.timerState.isRunning THEN [w EXCEPT !.ret = <<>>]
  ELSE
    LET list == w.timerState.pausedIntervals
        closes == list # <<>> /\ w.heap[Last(list)].end = 0
        w1 == [w EXCEPT !.timerState.isRunning = TRUE, !.ret = <<>>]
        w2 == IF closes
              THEN [w1 EXCEPT !.heap[Last(list)].end = now,
                              !.timerState.pausedTime =
                                 @ + (now - w.heap[Last(list)].start)]
              ELSE w1
    IN notifyListeners(persistPausedSnapshot(w2))

\* resumeLecture(): closes the last interval object of the timer's list
resumeLecture(w, now) ==
  IF w.timerState.isRunning \/ w.currentSession = <<>> THEN [w EXCEPT !.ret = <<>>]
  ELSE
    LET list == w.timerState.pausedIntervals
        closes == list # <<>> /\ w.heap[Last(list)].end = 0
        w1 == [w EXCEPT !.timerState.isRunning = TRUE, !.ret = <<>>]
        w2 == IF closes
              THEN [w1 EXCEPT !.heap[Last(list)].end = now,
                              !.timerState.pausedTime =
                                 @ + (now - w.heap[Last(list)].start)]
              ELSE w1
    IN notifyListeners(persistPausedSnapshot(w2))

\* Array.prototype.find(interval => interval.end === 0): <<>> or <<ref>>
FindOpen(h, list) ==
  LET open == {i \in 1..Len(list) : h[list[i]].end = 0}
  IN IF open = {} THEN <<>>
     ELSE <<list[CHOOSE i \in open : \A j \in open : i <= j]>>

\* stopLecture() that leaves the session's own interval list as it is
stopLectureNoCopy(w, now, nowPause) ==
  IF w.currentSession = <<>> THEN [w EXCEPT !.ret = <<>>]
  ELSE
    LET w1 == IF w.timerState.isRunning THEN pauseLecture(w, nowPause) ELSE w
        open == FindOpen(w1.heap, w1.timerState.pausedIntervals)
        w2 == IF open # <<>>
              THEN [w1 EXCEPT !.heap[open[1]].end = now,
                              !.timerState.pausedTime =
                                 @ + (now - w1.heap[open[1]].start)]
              ELSE w1
        w3 == [w2 EXCEPT !.currentSession[1].completedAt = <<now>>]
        completedSession == SessionJson(w3.heap, w3.currentSession[1])
        w4 == [w3 EXCEPT !.store = addLectureSession(@, completedSession)]
    IN notifyListeners([w4 EXCEPT !.currentSession = <<>>,
                                  !.timerState = ZeroTimer,
                                  !.checkedItemIds = <<>>,
                                  !.heap = <<>>,
                                  !.store = clearPausedLectureState(@),
                                  !.ret = <<completedSession>>])

\* stopLecture() that gives up, keeping the session, when the store cannot save
stopLectureUnlessSaved(w, now, nowPause) ==
  IF w.currentSession = <<>> \/ w.store.saveFails THEN [w EXCEPT !.ret = <<>>]
  ELSE
    LET w1 == IF w.timerState.isRunning THEN pauseLecture(w, nowPause) ELSE w
        open == FindOpen(w1.heap, w1.timerState.pausedIntervals)
        w2 == IF open # <<>>
              THEN [w1 EXCEPT !.heap[open[1]].end = now,
                              !.timerState.pausedTime =
                                 @ + (now - w1.heap[open[1]].start)]
              ELSE w1
        w3 == [w2 EXCEPT !.currentSession[1].completedAt = <<now>>,
                         !.currentSession[1].pausedIntervals =
                            w2.timerState.pausedIntervals]
        completedSession == SessionJson(w3.heap, w3.currentSession[1])
        w4 == [w3 EXCEPT !.store = addLectureSession(@, completedSession)]
    IN notifyListeners([w4 EXCEPT !.currentSession = <<>>,
                                  !.timerState = ZeroTimer,
                                  !.checkedItemIds = <<>>,
                                  !.heap = <<>>,
                                  !.store = clearPausedLectureState(@),
                                  !.ret = <<completedSession>>])

\* stopLecture(): now is read first, nowPause is the clock pauseLecture reads
stopLecture(w, now, nowPause) ==
  IF w.currentSession = <<>> THEN [w EXCEPT !.ret = <<>>]
  ELSE
    LET w1 == IF w.timerState.isRunning THEN pauseLecture(w, nowPause) ELSE w
        open == FindOpen(w1.heap, w1.timerState.pausedIntervals)
        w2 == IF open # <<>>
              THEN [w1 EXCEPT !.heap[open[1]].end = now,
                              !.timerState.pausedTime =
                                 @ + (now - w1.heap[open[1]].start)]
              ELSE w1
        w3 == [w2 EXCEPT !.currentSession[1].completedAt = <<now>>,
                         !.currentSession[1].pausedIntervals =
                            w2.timerState.pausedIntervals]
        completedSession == SessionJson(w3.heap, w3.currentSession[1])
        w4 == [w3 EXCEPT !.store = addLectureSession(@, completedSession)]
    IN notifyListeners([w4 EXCEPT !.currentSession = <<>>,
                                  !.timerState = ZeroTimer,
                                  !.checkedItemIds = <<>>,
                                  !.heap = <<>>,
                                  !.store = clearPausedLectureState(@),
                                  !.ret = <<completedSession>>])

\* logItemCovered(itemId) that appends without removing the earlier entry
logItemCoveredAppendOnly(w, itemId, now) ==
  IF w.currentSession = <<>> THEN [w EXCEPT !.ret = <<>>]
  ELSE persistPausedSnapshot(
         [w EXCEPT !.currentSession[1].itemTimestamps =
                      Append(@, [itemId |-> itemId, timestamp |-> now]),
                   !.checkedItemIds = SetAdd(@, itemId),
                   !.ret = <<>>])

\* logItemCovered(itemId)
logItemCovered(w, itemId, now) ==
  IF w.currentSession = <<>> THEN [w EXCEPT !.ret = <<>>]
  ELSE persistPausedSnapshot(
         [w EXCEPT !.currentSession[1].itemTimestamps =
                      Append(Filter(@, itemId), [itemId |-> itemId, timestamp |-> now]),
                   !.checkedItemIds = SetAdd(@, itemId),
                   !.ret = <<>>])

\* removeItemTimestamp(itemId) that does not persist the snapshot
removeItemTimestampNoPersist(w, itemId) ==
  IF w.currentSession = <<>> THEN [w EXCEPT !.ret = <<>>]
  ELSE [w EXCEPT !.currentSession[1].itemTimestamps = Filter(@, itemId),
                 !.checkedItemIds = SetDelete(@, itemId),
                 !.ret = <<>>]

\* removeItemTimestamp(itemId)
removeItemTimestamp(w, itemId) ==
  IF w.currentSession = <<>> THEN [w EXCEPT !.ret = <<>>]
  ELSE persistPausedSnapshot(
         [w EXCEPT !.currentSession[1].itemTimestamps = Filter(@, itemId),
                   !.checkedItemIds = SetDelete(@, itemId),
                   !.ret = <<>>])

\* getElapsedTime() that leaves the pause in progress out
getElapsedTimeOfClosed(t, h, now) ==
  IF t.startTime = <<>> \/ t.startTime = <<0>> THEN 0
  ELSE (now - t.startTime[1]) - t.pausedTime

\* getElapsedTime() of timer state t over heap h, read at now
getElapsedTime(t, h, now) ==
  IF t.startTime = <<>> \/ t.startTime = <<0>> THEN 0
  ELSE
    LET totalElapsed == now - t.startTime[1]
        list == t.pausedIntervals
        openNow == ~t.isRunning /\ list # <<>> /\ h[Last(list)].end = 0
        pausedTime == IF openNow THEN t.pausedTime + (now - h[Last(list)].start)
                      ELSE t.pausedTime
    IN totalElapsed - pausedTime

\* getTimerState(), by value
getTimerState(w) == TimerJson(w.heap, w.timerState)

\* getCurrentSession(), by value
getCurrentSession(w) ==
  IF w.currentSession = <<>> THEN <<>>
  ELSE <<SessionJson(w.heap, w.currentSession[1])>>


\* ---- the state machine
\* A new LectureTimerService over an empty store
FreshEngine ==
  /\ clock = 1
  /\ timerState = ZeroTimer
  /\ currentSession = <<>>
  /\ checkedItemIds = <<>>
  /\ heap = <<>>
  /\ store = [lecture_sessions |-> <<>>, lecture_current_session |-> <<>>,
              saveFails |-> FALSE, loadFails |-> FALSE]
  /\ nextId = 0
  /\ lastOp = "init"
  /\ returned = <<>>
  /\ notified = <<>>
  /\ called = <<>>
  /\ listeners = <<>>
  /\ hist = <<>>
  /\ loggedIds = {}
  /\ snapshotAt = 0
  /\ startedOutline = ""
  /\ replaced = {}

Init == FreshEngine /\ NoImport

\* A later launch of the app: the store holds what an earlier process left, one
\* completed session and the snapshot of a session paused with one item
\* covered (startLecture, stopLecture, startLecture, logItemCovered,
\* pauseLecture within the first millisecond, then the process died)
InitLater ==
  /\ clock = 1
  /\ timerState = ZeroTimer
  /\ currentSession = <<>>
  /\ checkedItemIds = <<>>
  /\ heap = <<>>
  /\ store =
       [lecture_sessions |->
          <<[id |-> -1, outlineId |-> "outline2", startedAt |-> 1,
             pausedIntervals |-> <<[start |-> 1, end |-> 1]>>,
             itemTimestamps |-> <<>>, completedAt |-> <<1>>]>>,
        lecture_current_session |->
          <<[session |->
               [id |-> 0, outlineId |-> "outline1", startedAt |-> 1,
                pausedIntervals |-> <<[start |-> 1, end |-> 0]>>,
                itemTimestamps |-> <<[itemId |-> "i1", timestamp |-> 1]>>,
                completedAt |-> <<>>],
             timer |->
               [isRunning |-> FALSE, startTime |-> <<1>>, pausedTime |-> 0,
                pausedIntervals |-> <<[start |-> 1, end |-> 0]>>],
             checkedItemIds |-> <<"i1">>]>>,
        saveFails |-> FALSE, loadFails |-> FALSE]
  /\ nextId = 0
  /\ lastOp = "init"
  /\ returned = <<>>
  /\ notified = <<>>
  /\ called = <<>>
  /\ listeners = <<>>
  /\ hist = <<>>
  /\ loggedIds = {"i1"}
  /\ snapshotAt = 1
  /\ startedOutline = "outline1"
  /\ replaced = {}
  /\ NoImport

\* The engine's world before a call
World ==
  [timerState |-> timerState, currentSession |-> currentSession,
   checkedItemIds |-> checkedItemIds, heap |-> heap, store |-> store,
   listeners |-> listeners, notified |-> <<>>, calls |-> <<>>, ret |-> <<>>]

\* The engine's world after a call becomes the next state
Becomes(w, op) ==
  /\ timerState' = w.timerState
  /\ currentSession' = w.currentSession
  /\ checkedItemIds' = w.checkedItemIds
  /\ heap' = w.heap
  /\ store' = w.store
  /\ returned' = w.ret
  /\ notified' = w.notified
  /\ called' = w.calls
  /\ listeners' = w.listeners
  /\ lastOp' = op

HasSession == currentSession # <<>>

\* The history of the session's calls, in the process that holds it
Record(op, now) == IF hist = <<>> THEN <<>> ELSE Append(hist, <<op, now>>)

\* Date.now() advances
Tick ==
  /\ clock < MaxClock
  /\ clock' = clock + 1
  /\ lastOp' = "tick"
  /\ returned' = <<>>
  /\ notified' = <<>>
  /\ called' = <<>>
  /\ UNCHANGED <<timerState, currentSession, checkedItemIds, heap, store, nextId,
                 listeners, hist, loggedIds, snapshotAt, startedOutline, replaced, importVars>>

\* The process dies and the module is loaded again: a new LectureTimerService
Restart ==
  /\ timerState' = ZeroTimer
  /\ currentSession' = <<>>
  /\ checkedItemIds' = <<>>
  /\ heap' = <<>>
  /\ lastOp' = "restart"
  /\ returned' = <<>>
  /\ notified' = <<>>
  /\ called' = <<>>
  /\ listeners' = <<>>
  /\ hist' = <<>>
  /\ UNCHANGED <<clock, store, nextId, loggedIds, snapshotAt, startedOutline, replaced, importVars>>

StartLecture ==
  /\ nextId < MaxSessions
  /\ \E o \in OutlineIds :
       /\ Becomes(startLecture(World, o, clock, nextId + 1), "startLecture")
       /\ startedOutline' = o
  /\ replaced' = IF HasSession THEN replaced \cup {currentSession[1].id} ELSE replaced
  /\ UNCHANGED importVars
  /\ nextId' = nextId + 1
  /\ hist' = <<<<"start", clock>>>>
  /\ loggedIds' = {}
  /\ snapshotAt' = 0
  /\ UNCHANGED clock

PauseLecture ==
  LET effective == timerState.isRunning /\ HasSession IN
  /\ effective => Len(timerState.pausedIntervals) < MaxIntervals
  /\ Becomes(pauseLecture(World, clock), "pauseLecture")
  /\ hist' = IF effective THEN Record("pause", clock) ELSE hist
  /\ snapshotAt' = IF effective THEN clock ELSE snapshotAt
  /\ UNCHANGED <<clock, nextId, loggedIds, startedOutline, replaced, importVars>>

ResumeLecture ==
  LET effective == ~timerState.isRunning /\ HasSession IN
  /\ Becomes(resumeLecture(World, clock), "resumeLecture")
  /\ hist' = IF effective THEN Record("resume", clock) ELSE hist
  /\ snapshotAt' = IF effective THEN clock ELSE snapshotAt
  /\ UNCHANGED <<clock, nextId, loggedIds, startedOutline, replaced, importVars>>

\* pauseLecture() of a session that may be paused MaxPauses times
PauseLectureOften ==
  LET effective == timerState.isRunning /\ HasSession IN
  /\ effective => Len(timerState.pausedIntervals) < MaxPauses
  /\ Becomes(pauseLecture(World, clock), "pauseLecture")
  /\ hist' = IF effective THEN Record("pause", clock) ELSE hist
  /\ snapshotAt' = IF effective THEN clock ELSE snapshotAt
  /\ UNCHANGED <<clock, nextId, loggedIds, startedOutline, replaced, importVars>>

\* getElapsedTime(): reads the clock and the timer state, assigns nothing
GetElapsedTime ==
  /\ returned' = <<getElapsedTime(timerState, heap, clock)>>
  /\ lastOp' = "getElapsedTime"
  /\ notified' = <<>>
  /\ called' = <<>>
  /\ UNCHANGED <<clock, timerState, currentSession, checkedItemIds, heap, store,
                 nextId, listeners, hist, loggedIds, snapshotAt, startedOutline,
                 replaced, importVars>>

\* The clock may advance between stopLecture's read and pauseLecture's
StopLecture ==
  \E d \in 0..1 :
    /\ clock + d <= MaxClock
    /\ (d = 1) => (HasSession /\ timerState.isRunning)
    /\ Becomes(stopLecture(World, clock, clock + d), "stopLecture")
    /\ clock' = clock + d
    /\ hist' = IF HasSession THEN Record("stop", clock) ELSE hist
    /\ loggedIds' = IF HasSession THEN {} ELSE loggedIds
    /\ snapshotAt' = IF HasSession THEN 0 ELSE snapshotAt
    /\ UNCHANGED <<nextId, startedOutline, replaced, importVars>>

LogItemCoveredOf(itemId) ==
    /\ Becomes(logItemCovered(World, itemId, clock), "logItemCovered")
    /\ loggedIds' = IF HasSession THEN loggedIds \cup {itemId} ELSE loggedIds
    /\ snapshotAt' = IF HasSession THEN clock ELSE snapshotAt
    /\ UNCHANGED <<clock, nextId, hist, startedOutline, replaced, importVars>>

LogItemCovered == \E itemId \in ItemIds : LogItemCoveredOf(itemId)

RemoveItemTimestampOf(itemId) ==
    /\ Becomes(removeItemTimestamp(World, itemId), "removeItemTimestamp")
    /\ loggedIds' = IF HasSession THEN loggedIds \ {itemId} ELSE loggedIds
    /\ snapshotAt' = IF HasSession THEN clock ELSE snapshotAt
    /\ UNCHANGED <<clock, nextId, hist, startedOutline, replaced, importVars>>

RemoveItemTimestamp == \E itemId \in ItemIds : RemoveItemTimestampOf(itemId)

RestorePausedLecture ==
  LET snapshot == loadPausedLectureState(store) IN
  /\ (snapshot # <<>> /\ snapshot[1].timer.isRunning)
       => Len(snapshot[1].timer.pausedIntervals) < MaxIntervals
  /\ Becomes(restorePausedLecture(World, clock), "restorePausedLecture")
  /\ hist' = IF snapshot # <<>> /\ hist # <<>> THEN <<<<"restore", clock>>>> ELSE hist
  /\ UNCHANGED <<clock, nextId, loggedIds, snapshotAt, startedOutline, replaced, importVars>>

\* The store starts or stops failing
StoreHealth ==
  /\ \E sf, lf \in BOOLEAN :
       /\ <<sf, lf>> # <<store.saveFails, store.loadFails>>
       /\ store' = [store EXCEPT !.saveFails = sf, !.loadFails = lf]
  /\ lastOp' = "storeHealth"
  /\ returned' = <<>>
  /\ notified' = <<>>
  /\ called' = <<>>
  /\ UNCHANGED <<clock, timerState, currentSession, checkedItemIds, heap, nextId,
                 listeners, hist, loggedIds, snapshotAt, startedOutline, replaced, importVars>>

\* The working store starts failing, for good
StoreBreaks ==
  /\ ~store.saveFails
  /\ ~store.loadFails
  /\ StoreHealth

AddListener ==
  /\ \E listener \in ListenerIds : Becomes(addListener(World, listener), "addListener")
  /\ UNCHANGED <<clock, nextId, hist, loggedIds, snapshotAt, startedOutline, replaced, importVars>>

\* Calling the function an addListener(listener) returned
RemoveListener ==
  /\ \E listener \in ListenerIds :
       Becomes(removeListener(World, listener), "removeListener")
  /\ UNCHANGED <<clock, nextId, hist, loggedIds, snapshotAt, startedOutline, replaced, importVars>>

Next ==
  \/ Tick
  \/ Restart
  \/ StartLecture
  \/ PauseLecture
  \/ ResumeLecture
  \/ StopLecture
  \/ LogItemCovered
  \/ RemoveItemTimestamp
  \/ RestorePausedLecture
  \/ AddListener
  \/ RemoveListener

Spec == Init /\ [][Next]_vars

\* The lifecycle of sessions, nothing covered
NextTimer ==
  \/ Tick
  \/ Restart
  \/ StartLecture
  \/ PauseLecture
  \/ ResumeLecture
  \/ StopLecture
  \/ RestorePausedLecture

SpecTimer == Init /\ [][NextTimer]_vars

\* Sessions in progress in one process, none stopped
NextItems ==
  \/ Tick
  \/ StartLecture
  \/ PauseLecture
  \/ ResumeLecture
  \/ LogItemCovered
  \/ RemoveItemTimestamp
  \/ RestorePausedLecture

SpecItems == Init /\ [][NextItems]_vars

\* Sessions covered, paused and restored, also in a new process; none resumed
NextRestore ==
  \/ Tick
  \/ Restart
  \/ StartLecture
  \/ PauseLecture
  \/ LogItemCovered
  \/ RemoveItemTimestamp
  \/ RestorePausedLecture

SpecRestore == Init /\ [][NextRestore]_vars

\* Covering one item is enough to persist the snapshot of a Running session
LogItemCoveredFirst == LogItemCoveredOf("i1")

\* Sessions paused, resumed and covered, the process dying at any moment
NextCrash ==
  \/ Tick
  \/ Restart
  \/ StartLecture
  \/ PauseLecture
  \/ ResumeLecture
  \/ LogItemCoveredFirst
  \/ RestorePausedLecture

SpecCrash == Init /\ [][NextCrash]_vars


\* One more item id, for the order of the entries of several items
MoreItemIds == ItemIds \cup {"i3"}

LogItemCoveredMore == \E itemId \in MoreItemIds : LogItemCoveredOf(itemId)

RemoveItemTimestampMore == \E itemId \in MoreItemIds : RemoveItemTimestampOf(itemId)

\* Covering and uncovering three items, pausing and restoring
NextCover ==
  \/ Tick
  \/ StartLecture
  \/ PauseLecture
  \/ LogItemCoveredMore
  \/ RemoveItemTimestampMore
  \/ RestorePausedLecture

SpecCover == Init /\ [][NextCover]_vars

RemoveItemTimestampFirst == RemoveItemTimestampOf("i1")

\* Every operation, on the store an earlier process left; the calls follow
\* each other within the clock's resolution (only stopLecture sees it advance)
NextStore ==
  \/ Restart
  \/ StartLecture
  \/ PauseLecture
  \/ ResumeLecture
  \/ StopLecture
  \/ LogItemCoveredFirst
  \/ RemoveItemTimestampFirst
  \/ RestorePausedLecture

SpecStore == InitLater /\ [][NextStore]_vars

\* Listeners coming and going around every operation of the engine, the calls
\* following each other within the clock's resolution
NextListeners ==
  \/ AddListener
  \/ RemoveListener
  \/ StartLecture
  \/ PauseLecture
  \/ ResumeLecture
  \/ StopLecture
  \/ LogItemCoveredFirst
  \/ RemoveItemTimestampFirst
  \/ RestorePausedLecture

SpecListeners == Init /\ [][NextListeners]_vars

\* Every operation of the engine on a store that starts failing at some
\* moment, the calls following each other within the clock's resolution
NextFaulty ==
  \/ StoreBreaks
  \/ StartLecture
  \/ PauseLecture
  \/ ResumeLecture
  \/ StopLecture
  \/ LogItemCoveredFirst
  \/ RemoveItemTimestampFirst
  \/ RestorePausedLecture

SpecFaulty == Init /\ [][NextFaulty]_vars

\* A later launch of the app: the paused session is restored, goes on, and is
\* stopped or overwritten by a new one
NextOverwrite ==
  \/ Tick
  \/ RestorePausedLecture
  \/ StartLecture
  \/ PauseLecture
  \/ LogItemCoveredFirst
  \/ StopLecture

SpecOverwrite == InitLater /\ [][NextOverwrite]_vars

\* One session started, paused and resumed, its elapsed time read at any moment
NextClock ==
  \/ Tick
  \/ StartLecture
  \/ PauseLectureOften
  \/ ResumeLecture
  \/ GetElapsedTime

SpecClock == Init /\ [][NextClock]_vars

\* ---- markdownParser
\* A string is the sequence of its characters.  \s of the regular expressions
\* and the white space of trim() are the space, the tab and the line feed.
Whitespace == {" ", "\t", "\n"}

\* String.prototype.trimStart()
RECURSIVE trimStart(_)
trimStart(s) ==
  IF s # <<>> /\ Head(s) \in Whitespace THEN trimStart(Tail(s)) ELSE s

\* String.prototype.trimEnd()
RECURSIVE trimEnd(_)
trimEnd(s) ==
  IF s # <<>> /\ s[Len(s)] \in Whitespace
  THEN trimEnd(SubSeq(s, 1, Len(s) - 1))
  ELSE s

\* String.prototype.trim()
trim(s) == trimEnd(trimStart(s))

\* String.prototype.startsWith(c), c one character
startsWith(s, c) == s # <<>> /\ Head(s) = c

\* String.prototype.slice(n), n >= 0
slice(s, n) == SubSeq(s, n + 1, Len(s))

\* String.prototype.split("\n")
RECURSIVE split(_)
split(s) ==
  LET first == CHOOSE n \in 0..Len(s) :
                 /\ n = Len(s) \/ s[n + 1] = "\n"
                 /\ \A k \in 1..n : s[k] # "\n"
  IN IF first = Len(s) THEN <<s>>
     ELSE <<SubSeq(s, 1, first)>> \o split(slice(s, first + 1))

\* Array.prototype.join("\n")
RECURSIVE join(_)
join(strings) ==
  IF strings = <<>> THEN <<>>
  ELSE IF Len(strings) = 1 THEN strings[1]
  ELSE strings[1] \o <<"\n">> \o join(Tail(strings))

\* match[1] of line.match(/^(\s*)/): the white space the line begins with
LeadingWhitespace(line) == SubSeq(line, 1, Len(line) - Len(trimStart(line)))

\* spaces.replace(/\t/g, "  ").length
RECURSIVE ExpandedLength(_)
ExpandedLength(spaces) ==
  IF spaces = <<>> THEN 0
  ELSE (IF Head(spaces) = "\t" THEN 2 ELSE 1) + ExpandedLength(Tail(spaces))

getIndentationLevel(line) == ExpandedLength(LeadingWhitespace(line)) \div 2

countLeadingWhitespace(line) == ExpandedLength(LeadingWhitespace(line))

\* trimmedLine.match(/^-\s*\[([x\s])\]\s+(.+)$/): <<>> when no match, else
\* <<groups>>; the line is trimmed, so the greedy \s+ leaves a non-empty rest
todoMatch(trimmedLine) ==
  LET afterDash == trimStart(Tail(trimmedLine))
      afterOpen == Tail(afterDash)
      afterMark == Tail(afterOpen)
      afterClose == Tail(afterMark)
  IN IF /\ startsWith(trimmedLine, "-")
        /\ startsWith(afterDash, "[")
        /\ afterOpen # <<>>
        /\ Head(afterOpen) \in {"x"} \cup Whitespace
        /\ startsWith(afterMark, "]")
        /\ afterClose # <<>>
        /\ Head(afterClose) \in Whitespace
        /\ trimStart(afterClose) # <<>>
     THEN <<[mark |-> Head(afterOpen), rest |-> trimStart(afterClose)]>>
     ELSE <<>>

\* trimmedLine.match(/^[-*]\s+(.+)$/)
bulletMatch(trimmedLine) ==
  IF /\ trimmedLine # <<>>
     /\ Head(trimmedLine) \in {"-", "*"}
     /\ Tail(trimmedLine) # <<>>
     /\ Head(Tail(trimmedLine)) \in Whitespace
     /\ trimStart(Tail(trimmedLine)) # <<>>
  THEN <<[rest |-> trimStart(Tail(trimmedLine))]>>
  ELSE <<>>

\* String.prototype.toLowerCase() of one character
toLowerCase(c) == IF c = "X" THEN "x" ELSE c

\* An item object as parseMarkdownLine makes it; generateId() is opaque and
\* each call's result is new, here the number of the line that asked for it
NewItem(lineNumber, title, completed, level) ==
  [id |-> lineNumber, title |-> title, notes |-> <<>>, completed |-> completed,
   level |-> level, children |-> <<>>]

\* parseMarkdownLine(line, lineNumber), lineNumber from 0; the error message
\* `Line ${lineNumber + 1}: Invalid list format: "${trimmedLine}"` is kept as
\* its two parts
parseMarkdownLine(line, lineNumber) ==
  LET trimmedLine == trim(line)
      level == getIndentationLevel(line)
      todo == todoMatch(trimmedLine)
      bullet == bulletMatch(trimmedLine)
  IN IF trimmedLine = <<>>
     THEN [item |-> <<>>, isChecklist |-> <<>>, error |-> <<>>]
     ELSE IF todo # <<>>
     THEN [item |-> <<NewItem(lineNumber, trim(todo[1].rest),
                              <<toLowerCase(todo[1].mark) = "x">>, level)>>,
           isChecklist |-> <<TRUE>>, error |-> <<>>]
     ELSE IF bullet # <<>>
     THEN [item |-> <<NewItem(lineNumber, trim(bullet[1].rest), <<>>, level)>>,
           isChecklist |-> <<FALSE>>, error |-> <<>>]
     ELSE IF ~startsWith(trimmedLine, "-") /\ ~startsWith(trimmedLine, "*")
             /\ level = 0
     THEN [item |-> <<>>, isChecklist |-> <<>>, error |-> <<>>]
     ELSE IF startsWith(trimmedLine, "-") \/ startsWith(trimmedLine, "*")
     THEN [item |-> <<>>, isChecklist |-> <<>>,
           error |-> <<[line |-> lineNumber + 1, text |-> trimmedLine]>>]
     ELSE [item |-> <<>>, isChecklist |-> <<>>, error |-> <<>>]

\* Item objects are referred to by their place in flatItems, where every
\* retained item is pushed when it is made: itemStack, the children lists and
\* the result hold such references, and a change of an item (its children, its
\* notes) is seen through all of them.

\* findParentForLevel(level) over itemStack: <<>> is undefined
RECURSIVE findParentForLevel(_, _, _)
findParentForLevel(flatItems, itemStack, level) ==
  IF itemStack = <<>> THEN <<>>
  ELSE IF flatItems[itemStack[Len(itemStack)]].level < level
       THEN <<itemStack[Len(itemStack)]>>
       ELSE findParentForLevel(flatItems, SubSeq(itemStack, 1, Len(itemStack) - 1),
                               level)

\* while (stack.length > 0 && stack[stack.length - 1].level >= level) stack.pop()
RECURSIVE PopToLevel(_, _, _)
PopToLevel(flatItems, stack, level) ==
  IF stack # <<>> /\ flatItems[stack[Len(stack)]].level >= level
  THEN PopToLevel(flatItems, SubSeq(stack, 1, Len(stack) - 1), level)
  ELSE stack

\* ref?.completed === true: only a todo that is done counts
IsChecklistRefDone(flatItems, ref) ==
  ref # <<>> /\ flatItems[ref[1]].completed = <<TRUE>>

\* ref !== undefined, whatever the item
IsChecklistRefAny(flatItems, ref) == ref # <<>>

\* ref?.completed !== undefined
IsChecklistRef(flatItems, ref) ==
  ref # <<>> /\ flatItems[ref[1]].completed # <<>>

\* The body of the loop of parseMarkdownList for lines[i], i from 0, on the
\* locals p = [errors, flatItems, itemLineIndices, itemStack]
ParseLine(p, lines, i) ==
  LET line == lines[i + 1]
      parseResult == parseMarkdownLine(line, i)
      lineLevel == getIndentationLevel(line)
      parentForLine == findParentForLevel(p.flatItems, p.itemStack, lineLevel)
      parentIsChecklist == IsChecklistRef(p.flatItems, parentForLine)
      isNestedLine == lineLevel > 0
      isPotentialListMarker ==
        startsWith(trimStart(line), "-") \/ startsWith(trimStart(line), "*")
      shouldSuppressNestedListError ==
        isNestedLine /\ parentIsChecklist /\ isPotentialListMarker
          /\ parseResult.item = <<>>
      errors == IF parseResult.error # <<>> /\ ~shouldSuppressNestedListError
                THEN Append(p.errors, parseResult.error[1])
                ELSE p.errors
  IN IF parseResult.item = <<>> THEN [p EXCEPT !.errors = errors]
     ELSE
       LET item == parseResult.item[1]
           popped == PopToLevel(p.flatItems, p.itemStack, item.level)
           parent == IF popped = <<>> THEN <<>> ELSE <<popped[Len(popped)]>>
           parentIsChecklistItem == IsChecklistRef(p.flatItems, parent)
           isNestedItem == item.level > 0
       IN IF parseResult.isChecklist = <<FALSE>> /\ isNestedItem
               /\ parentIsChecklistItem
          THEN [p EXCEPT !.errors = errors, !.itemStack = popped]
          ELSE [errors |-> errors,
                flatItems |-> Append(p.flatItems, item),
                itemLineIndices |-> Append(p.itemLineIndices, i),
                itemStack |-> Append(popped, Len(p.flatItems) + 1)]

\* for (let i = 0; i < lines.length; i++): the locals after the lines before n
RECURSIVE ParseLines(_, _)
ParseLines(lines, n) ==
  IF n = 0
  THEN [errors |-> <<>>, flatItems |-> <<>>, itemLineIndices |-> <<>>,
        itemStack |-> <<>>]
  ELSE ParseLine(ParseLines(lines, n - 1), lines, n - 1)

\* buildNestedStructure(flatItems) for the items from k on: b = [result,
\* stack, items], items the objects with the children pushed so far
RECURSIVE BuildFrom(_, _)
BuildFrom(b, k) ==
  IF k > Len(b.items) THEN b
  ELSE
    LET stack == PopToLevel(b.items, b.stack, b.items[k].level)
    IN BuildFrom(
         IF stack = <<>>
         THEN [result |-> Append(b.result, k), stack |-> <<k>>, items |-> b.items]
         ELSE [result |-> b.result, stack |-> Append(stack, k),
               items |-> [b.items EXCEPT ![stack[Len(stack)]].children =
                                           Append(@, k)]],
         k + 1)

\* buildNestedStructure(flatItems) that makes every item a root
buildNestedStructureFlat(flatItems) ==
  [result |-> [k \in 1..Len(flatItems) |-> k], items |-> flatItems]

\* buildNestedStructure(flatItems): the roots and the objects
buildNestedStructure(flatItems) ==
  LET b == BuildFrom([result |-> <<>>, stack |-> <<>>, items |-> flatItems], 1)
  IN [result |-> b.result, items |-> b.items]

\* Math.min(...numbers) of a non-empty list
Min(numbers) ==
  CHOOSE m \in {numbers[k] : k \in 1..Len(numbers)} :
    \A k \in 1..Len(numbers) : m <= numbers[k]

\* Array.prototype.filter of the lines that are not blank
RECURSIVE NonBlank(_)
NonBlank(segment) ==
  IF segment = <<>> THEN <<>>
  ELSE (IF Len(trim(Head(segment))) > 0 THEN <<Head(segment)>> ELSE <<>>)
         \o NonBlank(Tail(segment))

\* The notes attachNotesToItems finds for the item at index (from 0): <<>> when
\* it assigns none
NotesOf(lines, itemLineIndices, index) ==
  LET startLine == itemLineIndices[index + 1] + 1
      endLine == IF index + 1 < Len(itemLineIndices)
                 THEN itemLineIndices[index + 2] ELSE Len(lines)
      segment == SubSeq(lines, startLine + 1, endLine)
      nonEmpty == NonBlank(segment)
      nonEmptyIndents == [k \in 1..Len(nonEmpty) |-> countLeadingWhitespace(nonEmpty[k])]
      minIndent == IF Len(nonEmptyIndents) > 0 THEN Min(nonEmptyIndents) ELSE 0
      normalized ==
        trim(join([k \in 1..Len(segment) |->
                     IF Len(trim(segment[k])) = 0 THEN <<>>
                     ELSE IF countLeadingWhitespace(segment[k]) >= minIndent
                          THEN slice(segment[k], minIndent)
                          ELSE trimStart(segment[k])]))
  IN IF startLine >= endLine THEN <<>>
     ELSE IF Len(normalized) > 0 THEN <<normalized>> ELSE <<>>

\* attachNotesToItems(lines, items, itemLineIndices): the objects afterwards
attachNotesToItems(lines, items, itemLineIndices) ==
  [index \in 1..Len(items) |->
     LET notes == NotesOf(lines, itemLineIndices, index - 1)
     IN IF notes = <<>> THEN items[index]
        ELSE [items[index] EXCEPT !.notes = notes]]

\* The line without the "#" characters it begins with
RECURSIVE SkipHashes(_)
SkipHashes(s) == IF startsWith(s, "#") THEN SkipHashes(Tail(s)) ELSE s

\* trimmed.match(/^#+\s*(.+)$/): the group, <<>> when no match; a line of
\* two or more "#" and nothing else matches with "#" as its group
headingMatch(trimmed) ==
  IF ~startsWith(trimmed, "#") THEN <<>>
  ELSE IF trimStart(SkipHashes(trimmed)) # <<>>
       THEN <<trimStart(SkipHashes(trimmed))>>
       ELSE IF Len(trimmed) >= 2 THEN <<<<"#">>>> ELSE <<>>

\* extractTitle(lines): <<>> is undefined
RECURSIVE extractTitle(_)
extractTitle(lines) ==
  IF lines = <<>> THEN <<>>
  ELSE
    LET trimmed == trim(Head(lines))
        isBullet == /\ Len(trimmed) >= 2
                    /\ trimmed[1] \in {"-", "*"}
                    /\ trimmed[2] \in Whitespace
        isTodo == /\ startsWith(trimmed, "-")
                  /\ startsWith(trimStart(Tail(trimmed)), "[")
    IN IF trimmed = <<>> THEN extractTitle(Tail(lines))
       ELSE IF headingMatch(trimmed) # <<>> THEN <<trim(headingMatch(trimmed)[1])>>
       ELSE IF ~isBullet /\ ~isTodo THEN <<trimmed>>
       ELSE <<>>

\* parseMarkdownList(content): items holds the roots, objects the item
\* objects they and their children lists refer to
parseMarkdownList(text) ==
  LET lines == split(text)
      title == extractTitle(lines)
      p == ParseLines(lines, Len(lines))
      nested == buildNestedStructure(p.flatItems)
  IN [items |-> nested.result,
      objects |-> attachNotesToItems(lines, nested.items, p.itemLineIndices),
      title |-> title,
      errors |-> p.errors]

\* flattenRecursively(itemList, prefix) of flattenMarkdownItems
RECURSIVE flattenRecursively(_, _, _)
flattenRecursively(objects, itemList, prefix) ==
  IF itemList = <<>> THEN <<>>
  ELSE
    LET item == objects[Head(itemList)]
    IN <<[id |-> item.id, title |-> prefix \o item.title, notes |-> item.notes]>>
         \o flattenRecursively(objects, item.children, prefix \o <<" ", " ">>)
         \o flattenRecursively(objects, Tail(itemList), prefix)

\* flattenMarkdownItems(items) that starts the walk one space in
flattenMarkdownItemsIndented(objects, items) ==
  flattenRecursively(objects, items, <<" ">>)

\* flattenMarkdownItems(items) that does not walk into the children
flattenMarkdownItemsOfRoots(objects, items) ==
  [n \in 1..Len(items) |->
     [id |-> objects[items[n]].id, title |-> objects[items[n]].title,
      notes |-> objects[items[n]].notes]]

\* flattenMarkdownItems(items)
flattenMarkdownItems(objects, items) == flattenRecursively(objects, items, <<>>)

\* The error messages of validateMarkdownItems: "No valid list items found"
\* and `Item with ID ${item.id} has empty title`
NoValidItems == [message |-> "No valid list items found"]

EmptyTitle(id) == [message |-> "Item with ID has empty title", id |-> id]

\* validateItemsRecursively(itemList) of validateMarkdownItems: the errors it
\* pushes
RECURSIVE validateItemsRecursively(_, _)
validateItemsRecursively(objects, itemList) ==
  IF itemList = <<>> THEN <<>>
  ELSE
    LET item == objects[Head(itemList)]
    IN (IF item.title = <<>> \/ trim(item.title) = <<>>
        THEN <<EmptyTitle(item.id)>> ELSE <<>>)
         \o (IF Len(item.children) > 0
             THEN validateItemsRecursively(objects, item.children) ELSE <<>>)
         \o validateItemsRecursively(objects, Tail(itemList))

\* validateMarkdownItems(items) that looks at the top-level items only
validateMarkdownItemsOfRoots(objects, items) ==
  LET errors ==
        (IF Len(items) = 0 THEN <<NoValidItems>> ELSE <<>>)
          \o validateItemsRecursively(
               [k \in 1..Len(objects) |-> [objects[k] EXCEPT !.children = <<>>]],
               items)
  IN [isValid |-> Len(errors) = 0, errors |-> errors]

\* validateMarkdownItems(items)
validateMarkdownItems(objects, items) ==
  LET errors == (IF Len(items) = 0 THEN <<NoValidItems>> ELSE <<>>)
                  \o validateItemsRecursively(objects, items)
  IN [isValid |-> Len(errors) = 0, errors |-> errors]

\* The title of an import without a title of its own
ImportedOutline == <<"Imported Outline">>

\* convertToOutlineFormat(parseResult, customTitle) that takes the parsed
\* title before the custom one
convertToOutlineFormatParsedFirst(parseResult, customTitle) ==
  [title |-> IF parseResult.title # <<>> /\ parseResult.title[1] # <<>>
             THEN parseResult.title[1]
             ELSE IF customTitle # <<>> /\ customTitle[1] # <<>>
                  THEN customTitle[1]
                  ELSE ImportedOutline,
   items |-> flattenMarkdownItems(parseResult.objects, parseResult.items)]

\* convertToOutlineFormat(parseResult, customTitle): a || b takes b when a is
\* undefined or the empty string
convertToOutlineFormat(parseResult, customTitle) ==
  [title |-> IF customTitle # <<>> /\ customTitle[1] # <<>>
             THEN customTitle[1]
             ELSE IF parseResult.title # <<>> /\ parseResult.title[1] # <<>>
                  THEN parseResult.title[1]
                  ELSE ImportedOutline,
   items |-> flattenMarkdownItems(parseResult.objects, parseResult.items)]

\* importFromText(content, options) from its parseResult on, options =
\* [customTitle, validateItems]; generateOutlineId() is opaque; nothing in the
\* try block throws, so the catch is not taken
importParseResult(parseResult, options) ==
  LET checked == validateMarkdownItems(parseResult.objects, parseResult.items)
      outlineData == convertToOutlineFormat(parseResult, options.customTitle)
  IN IF Len(parseResult.errors) > 0
     THEN [success |-> FALSE, outline |-> <<>>, errors |-> parseResult.errors,
           parseResult |-> <<parseResult>>]
     ELSE IF options.validateItems # <<FALSE>> /\ ~checked.isValid
     THEN [success |-> FALSE, outline |-> <<>>, errors |-> checked.errors,
           parseResult |-> <<parseResult>>]
     ELSE [success |-> TRUE,
           outline |-> <<[id |-> "generateOutlineId", title |-> outlineData.title,
                          items |-> outlineData.items]>>,
           errors |-> <<>>,
           parseResult |-> <<parseResult>>]

\* importFromText(content, options)
importFromText(text, options) ==
  importParseResult(parseMarkdownList(text), options)

\* ---- a markdown import
\* A text of lines: each line is an indentation followed by a body
LinesOf(indents, bodies) == {i \o b : i \in indents, b \in bodies}

\* The texts of one to n lines of a set
TextsOf(lineSet, n) ==
  UNION {{join(d) : d \in [1..k -> lineSet]} : k \in 1..n}

\* The parser is called on the text
ParseMarkdownList ==
  /\ parsed = <<>>
  /\ parsed' = <<parseMarkdownList(content)>>
  /\ UNCHANGED <<engineVars, content, outline, validation, imported>>

\* convertToOutlineFormat flattens the items of the parse result
FlattenMarkdownItems ==
  /\ parsed # <<>>
  /\ outline = <<>>
  /\ outline' = <<flattenMarkdownItems(parsed[1].objects, parsed[1].items)>>
  /\ UNCHANGED <<engineVars, content, parsed, validation, imported>>

\* validateMarkdownItems is called on the items of a parse result
ValidateMarkdownItems ==
  /\ parsed # <<>>
  /\ validation = <<>>
  /\ validation' = <<validateMarkdownItems(parsed[1].objects, parsed[1].items)>>
  /\ UNCHANGED <<engineVars, content, parsed, outline, imported>>

\* The options of an import: a custom title or none or an empty one, items
\* validated by default
OptionSet ==
  [customTitle : {<<>>, <<<<>>>>, <<<<"T">>>>},
   validateItems : {<<>>, <<TRUE>>, <<FALSE>>}]

\* importFromText is called on the text
ImportFromText ==
  /\ imported = <<>>
  /\ \E options \in OptionSet :
       imported' = <<[options |-> options,
                      result |-> importFromText(content, options)]>>
  /\ UNCHANGED <<engineVars, content, parsed, outline, validation>>

NextImport ==
  \/ ParseMarkdownList
  \/ FlattenMarkdownItems

\* Bodies of lines: todo items, bullets, text and list markers gone wrong
TodoOpen == <<"-", " ", "[", " ", "]", " ", "a">>
TodoDone == <<"-", " ", "[", "x", "]", " ", "b">>
TodoDoneUpper == <<"-", " ", "[", "X", "]", " ", "c">>
TodoSpaced == <<"-", " ", "[", "x", "]", " ", " ", "d", " ", "e", " ">>
Bullet == <<"-", " ", "f">>
Star == <<"*", " ", "g">>
BadDash == <<"-", "h">>
BadStar == <<"*", "i">>
Text == <<"j">>
Heading == <<"#", " ", "k">>
Dangling == <<"-">>
Blank == <<>>

\* Indentations: none, two spaces, a tab, four spaces
NoIndent == <<>>
TwoSpaces == <<" ", " ">>
OneTab == <<"\t">>
FourSpaces == <<" ", " ", " ", " ">>

\* An import of a text of todo lines and bullets
InitTodo ==
  /\ FreshEngine
  /\ content \in TextsOf(LinesOf({NoIndent, TwoSpaces},
                                  {TodoOpen, TodoDone, TodoDoneUpper, TodoSpaced,
                                   Bullet, Blank}),
                          MaxLines)
  /\ parsed = <<>>
  /\ outline = <<>>
  /\ validation = <<>>
  /\ imported = <<>>

SpecTodo == InitTodo /\ [][NextImport]_vars

\* An import of a text of list items at all depths
InitNest ==
  /\ FreshEngine
  /\ content \in TextsOf(LinesOf({NoIndent, TwoSpaces, OneTab, FourSpaces},
                                  {Bullet, TodoOpen}),
                          MaxLines)
  /\ parsed = <<>>
  /\ outline = <<>>
  /\ validation = <<>>
  /\ imported = <<>>

SpecNest == InitNest /\ [][NextImport]_vars

\* An import of a text with list markers gone wrong among todo items and
\* bullets
InitErrors ==
  /\ FreshEngine
  /\ content \in TextsOf(LinesOf({NoIndent, TwoSpaces, FourSpaces},
                                  {TodoOpen, Bullet, BadDash})
                            \cup LinesOf({TwoSpaces}, {BadStar, Dangling}),
                          MaxLines)
  /\ parsed = <<>>
  /\ outline = <<>>
  /\ validation = <<>>
  /\ imported = <<>>

SpecErrors == InitErrors /\ [][NextImport]_vars

\* Titles of items made by hand
TitleSet == {<<"a">>, <<>>, <<" ">>}

\* Trees of up to n items made by hand, as a test makes them: each item has a
\* title and a level, and lies under the nearest item before it with a smaller
\* level
TreesOf(n) ==
  UNION {{buildNestedStructure(
            [k \in 1..c |-> NewItem(k, choice[k][1], <<>>, choice[k][2])]) :
            choice \in [1..c -> TitleSet \X (0..2)]} : c \in 0..n}

\* validateMarkdownItems is handed items made by hand
InitValidate ==
  /\ FreshEngine
  /\ content = <<>>
  /\ \E tree \in TreesOf(MaxItems) :
       parsed = <<[items |-> tree.result, objects |-> tree.items,
                   title |-> <<>>, errors |-> <<>>]>>
  /\ outline = <<>>
  /\ validation = <<>>
  /\ imported = <<>>

NextValidate == ValidateMarkdownItems

SpecValidate == InitValidate /\ [][NextValidate]_vars

\* An import of a text with or without a title, items and bad lines
InitImportText ==
  /\ FreshEngine
  /\ content \in TextsOf(LinesOf({NoIndent},
                                  {TodoOpen, Bullet, BadDash, Text, Heading, Blank})
                            \cup LinesOf({TwoSpaces}, {Bullet}),
                          MaxLines)
  /\ parsed = <<>>
  /\ outline = <<>>
  /\ validation = <<>>
  /\ imported = <<>>

NextImportText == ImportFromText

SpecImportText == InitImportText /\ [][NextImportText]_vars

\* An import of a text with lines of prose and bullets between the items
InitNotes ==
  /\ FreshEngine
  /\ content \in TextsOf(LinesOf({NoIndent, TwoSpaces, OneTab, FourSpaces},
                                  {Text, Bullet})
                            \cup LinesOf({NoIndent}, {TodoOpen, Blank}),
                          MaxLines)
  /\ parsed = <<>>
  /\ outline = <<>>
  /\ validation = <<>>
  /\ imported = <<>>

SpecNotes == InitNotes /\ [][NextImport]_vars

\* The texts of a first line followed by one to n lines of a set
TextsUnder(first, lineSet, n) ==
  UNION {{join(<<first>> \o d) : d \in [1..k -> lineSet]} : k \in 1..n}

\* An import of a text of list items at all depths under a first todo item
InitUnder ==
  /\ FreshEngine
  /\ content \in TextsUnder(TodoOpen,
                             LinesOf({NoIndent, TwoSpaces, OneTab, FourSpaces},
                                     {Bullet, TodoDone}),
                             MaxLines)
  /\ parsed = <<>>
  /\ outline = <<>>
  /\ validation = <<>>
  /\ imported = <<>>

SpecUnder == InitUnder /\ [][NextImport]_vars

\* ---- properties
\* The calls recorded for the session are exactly ops, in order
HistIs(ops) ==
  /\ Len(hist) = Len(ops)
  /\ \A i \in 1..Len(ops) : hist[i][1] = ops[i]

\* The open intervals (end = 0) of a list of interval values, by position
OpenAt(list) == {i \in 1..Len(list) : list[i].end = 0}

TimerIntervals == Deref(heap, timerState.pausedIntervals)

SessionIntervals == Deref(heap, currentSession[1].pausedIntervals)

\* An effective pauseLecture or resumeLecture has just returned
JustPausedOrResumed ==
  /\ lastOp \in {"pauseLecture", "resumeLecture"}
  /\ notified # <<>>

\* C1 as stated: after start at T0, pause at T1, resume at T2 and stop at T3
\* while Running, the returned session has the single paused interval
\* {start: T1, end: T2}.
C1_SingleInterval ==
  (lastOp = "stopLecture" /\ returned # <<>>
     /\ HistIs(<<"start", "pause", "resume", "stop">>))
    => returned[1].pausedIntervals = <<[start |-> hist[2][2], end |-> hist[3][2]]>>

\* C1 amended: after start at T0, pause at T1 and resume at T2,
\* getElapsedTime() read at any later T3 is (T3 - T0) - (T2 - T1); stopLecture at
\* T3 then returns two paused intervals, {start: T1, end: T2} followed by the
\* trailing interval of its own pause, {start: T3', end: T3}, where T3' >= T3
\* is the clock pauseLecture read.
C1_PauseAccounting ==
  /\ HistIs(<<"start", "pause", "resume">>)
       => getElapsedTime(timerState, heap, clock)
            = (clock - hist[1][2]) - (hist[3][2] - hist[2][2])
  /\ (lastOp = "stopLecture" /\ returned # <<>>
     /\ HistIs(<<"start", "pause", "resume", "stop">>))
       => LET list == returned[1].pausedIntervals IN
          /\ Len(list) = 2
          /\ list[1] = [start |-> hist[2][2], end |-> hist[3][2]]
          /\ list[2].end = hist[4][2]
          /\ hist[4][2] <= list[2].start
          /\ list[2].start <= clock

\* C1 witness: a stop after start, pause and resume at three different times
C1_Witness ==
  /\ lastOp = "stopLecture"
  /\ returned # <<>>
  /\ HistIs(<<"start", "pause", "resume", "stop">>)
  /\ hist[1][2] < hist[2][2]
  /\ hist[2][2] < hist[3][2]

\* C2: while a session is active, after every effective pauseLecture and
\* resumeLecture the timer state's pausedIntervals and the session's
\* pausedIntervals are the same sequence of {start, end} values.
C2_IntervalsInSync ==
  (currentSession # <<>> /\ JustPausedOrResumed) => TimerIntervals = SessionIntervals

\* C3: pauseLecture() on an engine that is not Running, and resumeLecture() on
\* one that is Running, change nothing (timer state, session, checked items,
\* snapshot, stored sessions) and call no listener; a paused session is left
\* with exactly one open interval in the timer's list.
C3_Idempotent ==
  [][((lastOp' = "pauseLecture" /\ ~timerState.isRunning)
        \/ (lastOp' = "resumeLecture" /\ timerState.isRunning))
       => /\ UNCHANGED <<timerState, currentSession, checkedItemIds, heap, store>>
          /\ notified' = <<>>
          /\ (lastOp' = "pauseLecture" /\ currentSession # <<>>)
               => Cardinality(OpenAt(Deref(heap', timerState'.pausedIntervals))) = 1]_vars

\* C3 witness: pauseLecture() was called on a paused session and did nothing
C3_Witness ==
  /\ lastOp = "pauseLecture"
  /\ notified = <<>>
  /\ currentSession # <<>>
  /\ ~timerState.isRunning
  /\ OpenAt(SessionIntervals) # {}


\* The ids of a sequence of item ids, or of the itemId fields of entries
Ids(seq) == {seq[i] : i \in 1..Len(seq)}

CoveredIds(entries) == {entries[i].itemId : i \in 1..Len(entries)}

\* getElapsedTime() of a timer state held by value (a snapshot's), read at now
ElapsedOfValue(t, now) ==
  getElapsedTime([t EXCEPT !.pausedIntervals = [i \in 1..Len(t.pausedIntervals) |-> i]],
                 t.pausedIntervals, now)

\* restorePausedLecture() has just adopted a snapshot
JustRestored ==
  /\ lastOp = "restorePausedLecture"
  /\ returned = <<TRUE>>

\* C4: after an effective pauseLecture() the snapshot slot holds a snapshot
\* of the started outline whose checkedItemIds contain every id logged and not
\* removed since; whenever restorePausedLecture() finds a snapshot (also after
\* a restart) it returns true and the current session has a timestamp entry
\* for each such id.
C4_RestoreSemantics ==
  /\ (lastOp = "pauseLecture" /\ notified # <<>>)
       => LET snapshot == loadPausedLectureState(store) IN
          /\ snapshot # <<>>
          /\ snapshot[1].session.outlineId = startedOutline
          /\ loggedIds \subseteq Ids(snapshot[1].checkedItemIds)
  /\ (lastOp = "restorePausedLecture" /\ loadPausedLectureState(store) # <<>>)
       => /\ returned = <<TRUE>>
          /\ getCurrentSession(World) # <<>>
          /\ loggedIds \subseteq CoveredIds(getCurrentSession(World)[1].itemTimestamps)

\* C4 witness: a session with every item logged was restored into an engine
\* that a restart had reset
C4_Witness ==
  /\ JustRestored
  /\ loggedIds = ItemIds
  /\ hist = <<>>
  /\ CoveredIds(currentSession[1].itemTimestamps) = ItemIds

\* C5 as stated: the time between the last snapshot and the restore is
\* attributed to a pause, so the elapsed time right after restoring a Running
\* snapshot is the elapsed time at the moment of that snapshot.
C5_DeadTimePaused ==
  (JustRestored /\ loadPausedLectureState(store)[1].timer.isRunning)
    => getElapsedTime(timerState, heap, clock)
         = ElapsedOfValue(loadPausedLectureState(store)[1].timer, snapshotAt)

\* C5 amended: restoring a snapshot whose timer has isRunning = true leaves the
\* engine Paused with a new open last interval {start: now, end: 0}, now the
\* restore time; the time between the last snapshot and the restore is in no
\* pause interval and counts as elapsed time; getElapsedTime() does not grow
\* as the clock advances while the engine stays Paused.
C5_RestoreForcesPause ==
  /\ [](  (JustRestored /\ loadPausedLectureState(store)[1].timer.isRunning)
          => /\ ~timerState.isRunning
             /\ TimerIntervals # <<>>
             /\ Last(TimerIntervals) = [start |-> clock, end |-> 0]
             /\ getElapsedTime(timerState, heap, clock)
                  = ElapsedOfValue(loadPausedLectureState(store)[1].timer, snapshotAt)
                      + (clock - snapshotAt))
  /\ [][(lastOp' = "tick" /\ currentSession # <<>> /\ ~timerState.isRunning)
          => getElapsedTime(timerState', heap', clock')
               = getElapsedTime(timerState, heap, clock)]_vars

\* C5 witness: a Running snapshot restored later than it was written
C5_Witness ==
  /\ JustRestored
  /\ loadPausedLectureState(store)[1].timer.isRunning
  /\ snapshotAt < clock

NoDuplicate(entries) ==
  \A i, j \in 1..Len(entries) : entries[i].itemId = entries[j].itemId => i = j

FinalIntervals(list, running, now, nowPause) ==
  IF running THEN Append(list, [start |-> nowPause, end |-> now])
  ELSE [i \in 1..Len(list) |->
          IF i \in OpenAt(list) /\ \A j \in OpenAt(list) : i <= j
          THEN [list[i] EXCEPT !.end = now]
          ELSE list[i]]

C11_SessionsAppended ==
  [][IF lastOp' = "stopLecture" /\ returned' # <<>>
     THEN loadLectureSessions(store')
            = Append(loadLectureSessions(store), returned'[1])
     ELSE loadLectureSessions(store') = loadLectureSessions(store)]_vars

\* C11 witness: a session was stopped and stored behind the one stored by an
\* earlier process
C11_Witness ==
  /\ lastOp = "stopLecture"
  /\ returned # <<>>
  /\ Len(loadLectureSessions(store)) = 2
  /\ loadLectureSessions(store)[1].id = -1
  /\ loadLectureSessions(store)[2] = returned[1]


\* The operations that need an active session
SessionOps == {"pauseLecture", "resumeLecture", "stopLecture", "logItemCovered",
               "removeItemTimestamp"}

\* C12: with no active session pauseLecture, resumeLecture, logItemCovered,
\* removeItemTimestamp and stopLecture leave the timer state, the session, the
\* checked items, the snapshot and lecture_sessions unchanged, notify no
\* listener, and return nothing (stopLecture: null).
C12_MisuseNoOp ==
  [][(currentSession = <<>> /\ lastOp' \in SessionOps)
       => /\ UNCHANGED <<timerState, currentSession, checkedItemIds, heap, store>>
          /\ notified' = <<>>
          /\ returned' = <<>>]_vars

\* C12 witness: logItemCovered was called on an engine without session while
\* the store held a snapshot and a completed session
C12_Witness ==
  /\ lastOp = "logItemCovered"
  /\ currentSession = <<>>
  /\ notified = <<>>
  /\ loadPausedLectureState(store) # <<>>
  /\ loadLectureSessions(store) # <<>>


\* One call per listener of ls, in order, each with the timer state t
FanOut(ls, t) == [i \in 1..Len(ls) |-> <<ls[i], t>>]

\* The step is a call of op that takes effect
Effective(op) ==
  /\ lastOp' = op
  /\ CASE op = "startLecture" -> TRUE
       [] op = "pauseLecture" -> HasSession /\ timerState.isRunning
       [] op = "resumeLecture" -> HasSession /\ ~timerState.isRunning
       [] op = "restorePausedLecture" -> loadPausedLectureState(store) # <<>>
       [] OTHER -> HasSession

\* C13 as stated: after each of the seven operations that takes effect every
\* registered listener is called once, in registration order, with the timer
\* state resulting from the operation.
C13_AllOpsNotify ==
  [][\A op \in {"startLecture", "pauseLecture", "resumeLecture", "stopLecture",
                 "restorePausedLecture", "logItemCovered", "removeItemTimestamp"} :
        Effective(op)
          => called' = FanOut(listeners, TimerJson(heap', timerState'))]_vars

\* C13 amended: startLecture, pauseLecture, resumeLecture and
\* restorePausedLecture that take effect call every registered listener once,
\* in registration order, with the resulting timer state; stopLecture does so
\* with the zeroed state, after a first round of calls with the Paused state
\* when the session was Running; logItemCovered and removeItemTimestamp call
\* no listener; a listener that was removed is never called.
C13_Notification ==
  [][/\ \A op \in {"startLecture", "pauseLecture", "resumeLecture",
                    "restorePausedLecture"} :
          Effective(op)
            => called' = FanOut(listeners, TimerJson(heap', timerState'))
     /\ Effective("stopLecture")
          => called' =
               (IF timerState.isRunning
                THEN FanOut(listeners,
                            [TimerJson(heap, timerState) EXCEPT
                               !.isRunning = FALSE,
                               !.pausedIntervals =
                                  Append(@, [start |-> clock', end |-> 0])])
                ELSE <<>>)
               \o FanOut(listeners, ZeroTimer)
     /\ lastOp' \in {"logItemCovered", "removeItemTimestamp"} => called' = <<>>
     /\ \A i \in 1..Len(called') :
          \E j \in 1..Len(listeners') : called'[i][1] = listeners'[j]]_vars

\* C13 witness: two listeners, l2 registered before l1, were called in that
\* order by a pause
C13_Witness ==
  /\ lastOp = "pauseLecture"
  /\ listeners = <<"l2", "l1">>
  /\ Len(called) = 2
  /\ called[1][1] = "l2"
  /\ called[2] = <<"l1", TimerJson(heap, timerState)>>


\* The world before a call, had the store been working
Healthy == [World EXCEPT !.store.saveFails = FALSE, !.store.loadFails = FALSE]

\* The step leaves the engine, and returns, as world w has it
EndsAs(w) ==
  LET v == w IN
  <<timerState', currentSession', checkedItemIds', heap', returned', called'>>
    = <<v.timerState, v.currentSession, v.checkedItemIds, v.heap, v.ret, v.calls>>

StoreFails == store.saveFails \/ store.loadFails

\* The step is a call, on a failing store, of one of the operations that
\* write to the store, and it ends as it would on a working store
WritersUnaffected ==
  StoreFails =>
    CASE lastOp' = "startLecture"
           -> EndsAs(startLecture(Healthy, startedOutline', clock, nextId'))
      [] lastOp' = "pauseLecture" -> EndsAs(pauseLecture(Healthy, clock))
      [] lastOp' = "resumeLecture" -> EndsAs(resumeLecture(Healthy, clock))
      [] lastOp' = "stopLecture"
           -> /\ EndsAs(stopLecture(Healthy, clock, clock'))
              /\ HasSession => /\ returned' # <<>>
                               /\ currentSession' = <<>>
                               /\ timerState' = ZeroTimer
      [] lastOp' = "logItemCovered"
           -> \A x \in ItemIds :
                LogItemCoveredOf(x) => EndsAs(logItemCovered(Healthy, x, clock))
      [] lastOp' = "removeItemTimestamp"
           -> \A x \in ItemIds :
                RemoveItemTimestampOf(x) => EndsAs(removeItemTimestamp(Healthy, x))
      [] OTHER -> TRUE

\* C14 as stated: whatever operation runs while the store's save or load
\* fails, the engine's in-memory state ends exactly as with a working store.
C14_FailureUnseen ==
  [][/\ WritersUnaffected
     /\ (StoreFails /\ lastOp' = "restorePausedLecture")
          => EndsAs(restorePausedLecture(Healthy, clock))]_vars

\* C14 amended: startLecture, pauseLecture, resumeLecture, stopLecture,
\* logItemCovered and removeItemTimestamp leave the engine as a working store
\* would (stopLecture returns the session and resets the engine);
\* restorePausedLecture does so when only save fails, and when load fails it
\* returns false and leaves the engine as it was.
C14_FailureContained ==
  [][/\ WritersUnaffected
     /\ (~store.loadFails /\ store.saveFails /\ lastOp' = "restorePausedLecture")
          => EndsAs(restorePausedLecture(Healthy, clock))
     /\ (store.loadFails /\ lastOp' = "restorePausedLecture")
          => /\ returned' = <<FALSE>>
             /\ called' = <<>>
             /\ UNCHANGED <<timerState, currentSession, checkedItemIds, heap>>]_vars

\* C14 witness: a session was stopped while save failed: it was returned, the
\* engine is Idle, and the store still has the snapshot and no session
C14_Witness ==
  /\ lastOp = "stopLecture"
  /\ returned # <<>>
  /\ store.saveFails
  /\ currentSession = <<>>
  /\ store.lecture_current_session # <<>>
  /\ store.lecture_sessions = <<>>


\* The ids of the sessions in lecture_sessions
StoredIds ==
  {loadLectureSessions(store)[i].id : i \in 1..Len(loadLectureSessions(store))}

RECURSIVE ClosedDuration(_)
ClosedDuration(list) ==
  IF list = <<>> THEN 0
  ELSE (IF Last(list).end = 0 THEN 0 ELSE Last(list).end - Last(list).start)
         + ClosedDuration(SubSeq(list, 1, Len(list) - 1))

\* C16: whatever startLecture, pauseLecture and resumeLecture calls a session
\* has had, getElapsedTime() called at time T returns (T - startTime) minus
\* the total duration of the closed pause intervals minus (T - start of the
\* open interval) when Paused: T - T0 for a session started at T0 and never
\* paused, and 0 when no session was started; the call changes no state, and
\* the value does not change as the clock advances while Paused.
C16_ElapsedTime ==
  /\ [](lastOp = "getElapsedTime"
         => /\ HasSession
                 => returned[1]
                      = (clock - currentSession[1].startedAt)
                          - ClosedDuration(TimerIntervals)
                          - (IF timerState.isRunning THEN 0
                             ELSE clock - Last(TimerIntervals).start)
            /\ (HasSession /\ TimerIntervals = <<>>)
                 => returned[1] = clock - hist[1][2]
            /\ ~HasSession => returned[1] = 0)
  /\ [][lastOp' = "getElapsedTime"
          => UNCHANGED <<timerState, currentSession, checkedItemIds, heap,
                         store, listeners>>]_vars
  /\ [][(lastOp' = "tick" /\ HasSession /\ ~timerState.isRunning)
          => getElapsedTime(timerState', heap', clock')
               = getElapsedTime(timerState, heap, clock)]_vars

\* C16 witness: the elapsed time is read during the second pause of a
\* session whose first pause took time, after the clock moved on
C16_Witness ==
  /\ lastOp = "getElapsedTime"
  /\ ~timerState.isRunning
  /\ Len(TimerIntervals) = 2
  /\ TimerIntervals[1].end > TimerIntervals[1].start
  /\ clock > TimerIntervals[2].start
  /\ returned = <<0>>


\* The text of a todo line, "- [c] X" after its indentation: <<>> when the
\* line has another form
TodoText(line) ==
  LET t == trimStart(line)
  IN IF /\ Len(t) > 6
        /\ SubSeq(t, 1, 3) = <<"-", " ", "[">>
        /\ t[4] \in {" ", "x", "X"}
        /\ SubSeq(t, 5, 6) = <<"]", " ">>
        /\ trim(slice(t, 6)) # <<>>
     THEN <<trim(slice(t, 6))>>
     ELSE <<>>

\* The objects of the parse result made from line i (from 1) of the text
ItemsOfLine(i) ==
  {k \in 1..Len(parsed[1].objects) : parsed[1].objects[k].id = i - 1}

\* C17: every line "- [c] X" with c a space, "x" or "X" is parsed into a
\* checklist item with title X, completed = false when c is a space and true
\* when c is "x" or "X".
C17_TodoParsed ==
  parsed # <<>>
    => \A i \in 1..Len(split(content)) :
         LET line == split(content)[i] IN
         TodoText(line) # <<>>
           => \E k \in ItemsOfLine(i) :
                /\ parsed[1].objects[k].title = TodoText(line)[1]
                /\ parsed[1].objects[k].completed = <<trimStart(line)[4] # " ">>


\* n spaces
RECURSIVE Spaces(_)
Spaces(n) == IF n = 0 THEN <<>> ELSE <<" ">> \o Spaces(n - 1)

\* The retained items before item k that have a smaller level than it
Above(objects, k) == {j \in 1..(k - 1) : objects[j].level < objects[k].level}

\* The number of ancestors of retained item k: its parent is the nearest
\* retained item before it with a smaller level
RECURSIVE Ancestors(_, _)
Ancestors(objects, k) ==
  IF Above(objects, k) = {} THEN 0
  ELSE 1 + Ancestors(objects, CHOOSE j \in Above(objects, k) :
                                \A i \in Above(objects, k) : i <= j)

\* The outline items made from retained item k
OutlineOf(k) ==
  {j \in 1..Len(outline[1]) : outline[1][j].id = parsed[1].objects[k].id}

\* C18 as stated: the flattened title of a retained item whose line has
\* indentation depth D is 2*D spaces followed by the item's trimmed title.
C18_TitleByLevel ==
  outline # <<>>
    => \A k \in 1..Len(parsed[1].objects) :
         /\ OutlineOf(k) # {}
         /\ \A j \in OutlineOf(k) :
              outline[1][j].title
                = Spaces(2 * parsed[1].objects[k].level) \o parsed[1].objects[k].title

\* C18 amended: the flattened title of a retained item is 2*A spaces followed
\* by the item's trimmed title, A the number of the item's ancestors in the
\* tree (parent = the nearest retained item before it with a smaller level);
\* A is the line's indentation depth D when no level is skipped above the item,
\* and smaller otherwise.
C18_TitleByDepth ==
  outline # <<>>
    => \A k \in 1..Len(parsed[1].objects) :
         LET item == parsed[1].objects[k] IN
         /\ OutlineOf(k) # {}
         /\ Ancestors(parsed[1].objects, k) <= item.level
         /\ \A j \in OutlineOf(k) :
              outline[1][j].title
                = Spaces(2 * Ancestors(parsed[1].objects, k)) \o item.title

\* C18 witness: items at depths 0, 1 and 2, and an item two levels deep with
\* one ancestor
C18_Witness ==
  /\ outline # <<>>
  /\ Len(parsed[1].objects) = 3
  /\ parsed[1].objects[1].level = 0
  /\ parsed[1].objects[2].level = 1
  /\ parsed[1].objects[3].level = 2
  /\ outline[1][3].title = Spaces(4) \o parsed[1].objects[3].title


\* The trimmed line starts with a list marker and has neither the todo nor the
\* bullet shape
BadLine(line) ==
  /\ startsWith(trim(line), "-") \/ startsWith(trim(line), "*")
  /\ todoMatch(trim(line)) = <<>>
  /\ bulletMatch(trim(line)) = <<>>

\* The retained items of lines before line i (from 1) with a level below that
\* of line i
RetainedAbove(i) ==
  {k \in 1..Len(parsed[1].objects) :
     /\ parsed[1].objects[k].id < i - 1
     /\ parsed[1].objects[k].level < getIndentationLevel(split(content)[i])}

\* Line i is indented and the nearest of these is a checklist item
UnderChecklist(i) ==
  /\ getIndentationLevel(split(content)[i]) > 0
  /\ RetainedAbove(i) # {}
  /\ parsed[1].objects[CHOOSE k \in RetainedAbove(i) :
                          \A j \in RetainedAbove(i) : j <= k].completed # <<>>

\* The entries of errors that name line i
ErrorsOf(i) == {e \in 1..Len(parsed[1].errors) : parsed[1].errors[e].line = i}

\* The text with line i blanked
Without(i) == join([k \in 1..Len(split(content)) |->
                      IF k = i THEN <<>> ELSE split(content)[k]])

\* The items of a parse result without their notes
Shape(result) ==
  <<result.items,
    [k \in 1..Len(result.objects) |-> [result.objects[k] EXCEPT !.notes = <<>>]]>>

\* C19: a line whose trimmed text starts with "-" or "*" and has neither the
\* todo nor the bullet shape adds exactly one entry to errors, with its
\* 1-based number and its trimmed text, unless it is indented and the nearest
\* retained item before it with a smaller level is a checklist item, and then
\* it adds none; no other line adds an entry; and the ids, titles, levels and
\* tree of the items are those of the text without the line.
C19_BadLineReported ==
  parsed # <<>>
    => /\ \A i \in 1..Len(split(content)) :
            IF BadLine(split(content)[i])
            THEN /\ Cardinality(ErrorsOf(i)) = IF UnderChecklist(i) THEN 0 ELSE 1
                 /\ \A e \in ErrorsOf(i) :
                      parsed[1].errors[e].text = trim(split(content)[i])
                 /\ Shape(parsed[1]) = Shape(parseMarkdownList(Without(i)))
            ELSE ErrorsOf(i) = {}
       /\ \A e \in 1..Len(parsed[1].errors) :
            parsed[1].errors[e].line \in 1..Len(split(content))

\* C19 witness: of two bad lines one is reported and the one under a checklist
\* item is not, and an item follows them
C19_Witness ==
  /\ parsed # <<>>
  /\ \E i, j \in 1..Len(split(content)) :
       /\ BadLine(split(content)[i])
       /\ BadLine(split(content)[j])
       /\ UnderChecklist(i)
       /\ ~UnderChecklist(j)
       /\ ErrorsOf(i) = {}
       /\ ErrorsOf(j) # {}
  /\ Len(parsed[1].errors) = 1


\* The string sub occurs in the string s
Contains(s, sub) ==
  \E k \in 0..(Len(s) - Len(sub)) : SubSeq(s, k + 1, k + Len(sub)) = sub

\* Line i (from 1) is a plain bullet
PlainBullet(i) ==
  /\ todoMatch(trim(split(content)[i])) = <<>>
  /\ bulletMatch(trim(split(content)[i])) # <<>>

\* The parent of line i by the stack rule: the top of itemStack once the
\* entries of its level or deeper are popped (<<>> = none)
StackParent(i) ==
  LET p == ParseLines(split(content), i - 1)
      popped == PopToLevel(p.flatItems, p.itemStack,
                           getIndentationLevel(split(content)[i]))
  IN IF popped = <<>> THEN <<>> ELSE <<popped[Len(popped)]>>

\* Line i is a plain bullet with level > 0 whose parent is a checklist item
NestedUnderChecklist(i) ==
  /\ PlainBullet(i)
  /\ getIndentationLevel(split(content)[i]) > 0
  /\ StackParent(i) # <<>>
  /\ parsed[1].objects[StackParent(i)[1]].completed # <<>>

\* Line i is no item of the result nor of the outline, and names no error
Discarded(i) ==
  /\ ItemsOfLine(i) = {}
  /\ ErrorsOf(i) = {}
  /\ outline # <<>> => \A j \in 1..Len(outline[1]) : outline[1][j].id # i - 1

\* C20: a plain bullet line with level > 0 whose parent by the stack rule is a
\* checklist item is no item of the parse result nor of the flattened
\* outline, raises no error, and its text is contained in the notes of that
\* checklist item.
C20_BulletFolded ==
  parsed # <<>>
    => \A i \in 1..Len(split(content)) :
         NestedUnderChecklist(i)
           => /\ Discarded(i)
              /\ parsed[1].objects[StackParent(i)[1]].notes # <<>>
              /\ Contains(parsed[1].objects[StackParent(i)[1]].notes[1],
                          bulletMatch(trim(split(content)[i]))[1].rest)


\* The places of item k in the tree: <<0, n>> the n-th root, <<j, n>> the
\* n-th child of item j
PlacesOf(result, k) ==
  {<<0, n>> : n \in {n \in 1..Len(result.items) : result.items[n] = k}}
    \cup {place \in (1..Len(result.objects)) \X (1..Len(result.objects)) :
            /\ place[2] <= Len(result.objects[place[1]].children)
            /\ result.objects[place[1]].children[place[2]] = k}

\* The nearest retained item before item k with a smaller level (0 = none)
NearestAbove(objects, k) ==
  IF Above(objects, k) = {} THEN 0
  ELSE CHOOSE j \in Above(objects, k) : \A i \in Above(objects, k) : i <= j

\* C21: in the tree returned by parseMarkdownList every child's level is
\* greater than its parent's, and every retained item has one place in the
\* tree: among the children of the nearest retained item before it with a
\* smaller level, or among the roots when there is none.
C21_TreeByLevel ==
  parsed # <<>>
    => \A k \in 1..Len(parsed[1].objects) :
         /\ \A n \in 1..Len(parsed[1].objects[k].children) :
              parsed[1].objects[parsed[1].objects[k].children[n]].level
                > parsed[1].objects[k].level
         /\ Cardinality(PlacesOf(parsed[1], k)) = 1
         /\ \A place \in PlacesOf(parsed[1], k) :
              place[1] = NearestAbove(parsed[1].objects, k)

\* C21 witness: a root with two children of different levels, the deeper one
\* first
C21_Witness ==
  /\ parsed # <<>>
  /\ Len(parsed[1].objects) = 3
  /\ parsed[1].items = <<1>>
  /\ parsed[1].objects[1].children = <<2, 3>>
  /\ parsed[1].objects[2].level = 2
  /\ parsed[1].objects[3].level = 1


\* Line i (from 1) is a list item the parser retains: a todo line, or a
\* bullet that is not nested under a checklist item
RetainedLine(i) ==
  /\ todoMatch(trim(split(content)[i])) # <<>>
       \/ bulletMatch(trim(split(content)[i])) # <<>>
  /\ ~NestedUnderChecklist(i)

\* The ids of the items of the lines from i on that are retained, in line order
RECURSIVE RetainedIdsFrom(_)
RetainedIdsFrom(i) ==
  IF i > Len(split(content)) THEN <<>>
  ELSE (IF RetainedLine(i) THEN <<i - 1>> ELSE <<>>) \o RetainedIdsFrom(i + 1)

\* C22: the ids of flattenMarkdownItems(parseMarkdownList(doc).items) are the
\* ids of the retained list items in source line order, one outline item for
\* each retained line, none lost, doubled or moved.
C22_OrderPreserved ==
  outline # <<>>
    => /\ [j \in 1..Len(outline[1]) |-> outline[1][j].id] = RetainedIdsFrom(1)
       /\ [k \in 1..Len(parsed[1].objects) |-> parsed[1].objects[k].id]
            = RetainedIdsFrom(1)

\* C22 witness: a nested item after a discarded line, flattened behind its
\* parent
C22_Witness ==
  /\ outline # <<>>
  /\ Len(split(content)) = 3
  /\ [j \in 1..Len(outline[1]) |-> outline[1][j].id] = <<0, 2>>
  /\ parsed[1].objects[1].children = <<2>>


\* The items of the tree with a blank title
BlankTitled ==
  {k \in 1..Len(parsed[1].objects) :
     \A c \in 1..Len(parsed[1].objects[k].title) :
       parsed[1].objects[k].title[c] \in Whitespace}

\* C23: validateMarkdownItems(items) returns isValid = true exactly when items
\* is not empty and no item at any depth has an empty or blank title; for no
\* items the errors are exactly "No valid list items found"; and every item
\* with a blank title, at any depth, adds exactly one error with its id.
C23_Validation ==
  validation # <<>>
    => /\ validation[1].isValid
            <=> (parsed[1].items # <<>> /\ BlankTitled = {})
       /\ parsed[1].items = <<>> => validation[1].errors = <<NoValidItems>>
       /\ \A k \in 1..Len(parsed[1].objects) :
            Cardinality({e \in 1..Len(validation[1].errors) :
                           validation[1].errors[e]
                             = EmptyTitle(parsed[1].objects[k].id)})
              = IF k \in BlankTitled THEN 1 ELSE 0
       /\ Len(validation[1].errors)
            = Cardinality(BlankTitled) + IF parsed[1].items = <<>> THEN 1 ELSE 0

\* C23 witness: a blank title two levels down is the only thing wrong
C23_Witness ==
  /\ validation # <<>>
  /\ Len(parsed[1].objects) = 3
  /\ parsed[1].items = <<1>>
  /\ parsed[1].objects[1].children = <<2>>
  /\ parsed[1].objects[2].children = <<3>>
  /\ BlankTitled = {3}
  /\ ~validation[1].isValid
  /\ validation[1].errors = <<EmptyTitle(3)>>


\* The import is to succeed: the parse has no errors, and the items are valid
\* or not to be validated
ToSucceed ==
  /\ parseMarkdownList(content).errors = <<>>
  /\ \/ imported[1].options.validateItems = <<FALSE>>
     \/ validateMarkdownItems(parseMarkdownList(content).objects,
                              parseMarkdownList(content).items).isValid

\* C24: importFromText(content, options) returns success = true with an
\* outline exactly when the parse has no errors and validateItems is false or
\* the validation passes; otherwise success = false, no outline and a
\* non-empty error list, the parse errors if any, else the validation errors;
\* on success the outline's items are the flattened parse items in order and
\* its title is the custom title, else the parsed title, else
\* "Imported Outline".
C24_ImportResult ==
  imported # <<>>
    => LET result == imported[1].result
           options == imported[1].options
           parseResult == parseMarkdownList(content)
       IN /\ result.success <=> ToSucceed
          /\ result.success <=> result.outline # <<>>
          /\ result.success
               => /\ result.errors = <<>>
                  /\ result.outline[1].items
                       = flattenMarkdownItems(parseResult.objects, parseResult.items)
                  /\ result.outline[1].title
                       = IF options.customTitle \notin {<<>>, <<<<>>>>}
                         THEN options.customTitle[1]
                         ELSE IF parseResult.title # <<>> THEN parseResult.title[1]
                         ELSE ImportedOutline
          /\ ~result.success
               => /\ result.errors # <<>>
                  /\ result.errors
                       = IF parseResult.errors # <<>> THEN parseResult.errors
                         ELSE validateMarkdownItems(parseResult.objects,
                                                    parseResult.items).errors

\* C24 witness: a text with a title and two items imported under a custom
\* title
C24_Witness ==
  /\ imported # <<>>
  /\ imported[1].result.success
  /\ imported[1].options.customTitle = <<<<"T">>>>
  /\ imported[1].result.parseResult[1].title = <<<<"k">>>>
  /\ imported[1].result.outline[1].title = <<"T">>
  /\ Len(imported[1].result.outline[1].items) = 2


\* The line without its first w columns of white space (a tab is two columns)
RECURSIVE DedentBy(_, _)
DedentBy(line, w) ==
  IF w <= 0 \/ line = <<>> \/ Head(line) \notin Whitespace THEN line
  ELSE DedentBy(Tail(line), w - (IF Head(line) = "\t" THEN 2 ELSE 1))

\* The lines strictly between the line of retained item k and the line of the
\* next retained item, or the end of the text
SpanOf(k) ==
  SubSeq(split(content), parsed[1].objects[k].id + 2,
         IF k < Len(parsed[1].objects) THEN parsed[1].objects[k + 1].id
         ELSE Len(split(content)))

\* The notes of a span: its non-blank lines dedented by the least width of
\* leading white space among them, the blank lines emptied, joined and trimmed
NotesOfSpan(span) ==
  LET widths == {countLeadingWhitespace(span[n]) :
                   n \in {n \in 1..Len(span) : trim(span[n]) # <<>>}}
      least == IF widths = {} THEN 0
               ELSE CHOOSE w \in widths : \A v \in widths : w <= v
  IN trim(join([n \in 1..Len(span) |->
                  IF trim(span[n]) = <<>> THEN <<>> ELSE DedentBy(span[n], least)]))

\* C25: the notes of every retained item are the lines strictly between its
\* line and the next retained item's line (the end of the text for the last
\* item), each non-blank line dedented by the least leading white space width
\* of the span's non-blank lines, blank lines emptied, joined with newlines
\* and trimmed; the item has no notes when that text is empty.
C25_NotesOfSpan ==
  parsed # <<>>
    => \A k \in 1..Len(parsed[1].objects) :
         parsed[1].objects[k].notes
           = IF NotesOfSpan(SpanOf(k)) = <<>> THEN <<>>
             ELSE <<NotesOfSpan(SpanOf(k))>>


C27_IntervalsWellFormed ==
  (lastOp = "stopLecture" /\ returned # <<>>)
    => LET list == returned[1].pausedIntervals IN
       /\ \A i \in 1..Len(list) :
            /\ list[i].end # 0
            /\ returned[1].startedAt <= list[i].start
            /\ list[i].start <= list[i].end
            /\ list[i].end <= returned[1].completedAt[1]
       /\ \A i \in 1..(Len(list) - 1) : list[i].end <= list[i + 1].start


\* The elements of a list
Elements(list) == {list[i] : i \in 1..Len(list)}

\* C28: in every state of the engine the ids getCheckedItemIds() returns are
\* the itemIds of the current session's itemTimestamps, which
\* getCoveredItemIds() returns, and there are none when there is no session.
C28_CheckedIsCovered ==
  /\ Elements(getCheckedItemIds(World)) = Elements(getCoveredItemIds(World))
  /\ Len(getCheckedItemIds(World)) = Cardinality(Elements(getCheckedItemIds(World)))
  /\ ~HasSession => getCheckedItemIds(World) = <<>>

\* C28 witness: an item is covered again in a session restored with that item
\* checked
C28_Witness ==
  /\ lastOp = "logItemCovered"
  /\ HistIs(<<"restore">>)
  /\ getCheckedItemIds(World) = <<"i1">>
  /\ getCoveredItemIds(World) = <<"i1">>
  /\ currentSession[1].itemTimestamps[1].timestamp = clock


\* C29: when the snapshot slot holds a snapshot and the engine has a current
\* session, the snapshot is that session's; and the slot never holds a session
\* that is in lecture_sessions, so that no restorePausedLecture after a stop
\* brings a completed session back.
C29_SnapshotOfLiveSession ==
  loadPausedLectureState(store) # <<>>
    => /\ HasSession
            => loadPausedLectureState(store)[1].session.id = currentSession[1].id
       /\ loadPausedLectureState(store)[1].session.id \notin StoredIds

\* C29 witness: a restore that follows the stop of a restored session finds
\* nothing
C29_Witness ==
  /\ lastOp = "restorePausedLecture"
  /\ returned = <<FALSE>>
  /\ ~HasSession
  /\ StoredIds = {-1, 0}


\* C30: in the tree returned by parseMarkdownList every child of a checklist
\* item is a checklist item, also where a discarded bullet has popped from
\* the parser's stack an item that the stack of buildNestedStructure keeps.
C30_ChecklistChildren ==
  parsed # <<>>
    => \A k \in 1..Len(parsed[1].objects) :
         parsed[1].objects[k].completed # <<>>
           => \A n \in 1..Len(parsed[1].objects[k].children) :
                parsed[1].objects[parsed[1].objects[k].children[n]].completed # <<>>

\* C30 witness: the third line is a discarded bullet that pops the item of
\* the second line; the item of the fourth line has the first item as its
\* parent on the parser's stack and the second item as its parent in the tree
C30_Witness ==
  /\ parsed # <<>>
  /\ Len(split(content)) = 4
  /\ NestedUnderChecklist(3)
  /\ ItemsOfLine(3) = {}
  /\ StackParent(4) = <<1>>
  /\ Len(parsed[1].objects) = 3
  /\ parsed[1].objects[2].children = <<3>>

====
